---- MODULE Spec2Model ----
(***************************************************************************)
(* A model of the c_utf8 crate: the borrowed view CUtf8 (src/src/c_utf8.rs) *)
(* and the owned buffer CUtf8Buf (src/src/c_utf8_buf.rs).                   *)
(*                                                                         *)
(* Strings and byte slices are sequences of bytes (0..255).  A value of    *)
(* Rust type str / String is a byte sequence that is valid UTF-8; a value  *)
(* of type [u8] is any byte sequence.  A CUtf8 is modelled by the bytes of *)
(* its only field (self.0), a CUtf8Buf by the bytes of its String.         *)
(***************************************************************************)
EXTENDS Integers, Sequences, FiniteSets, TLC

\* ------------------------------------------------------------------ bounds
\* Longest text / byte slice handed to an operation.
MaxLen == 3
\* Longest stored buffer an append is still applied to.
MaxBuf == 5
\* Width of usize in bits (target dependent; 16 is the smallest Rust has).
UsizeBits == 16

\* The bytes inputs are built from: nul, 'a', and the two bytes of U+00E9
\* (0xC3 0xA9), either of which alone is not valid UTF-8.
Bytes == {0, 97, 195, 169}
\* The chars push / write_char are called with: U+0000, 'a', U+00E9.
Chars == {0, 97, 233}

ByteSeqs == UNION {[1..n -> Bytes] : n \in 0..MaxLen}

\* ------------------------------------------------- core / std primitives
None == [tag |-> "None", val |-> 0]
Some(x) == [tag |-> "Some", val |-> x]

Ok(v) == [tag |-> "Ok", val |-> v, err |-> "none"]
Err(e) == [tag |-> "Err", val |-> <<>>, err |-> e]

\* 2^n, for the usize arithmetic
RECURSIVE Pow2(_)
Pow2(n) == IF n = 0 THEN 1 ELSE 2 * Pow2(n - 1)

wrapping_sub(a, b) == (a - b) % Pow2(UsizeBits)
saturating_sub(a, b) == IF a < b THEN 0 ELSE a - b

\* [T]::last().cloned()
last(s) == IF Len(s) = 0 THEN None ELSE Some(s[Len(s)])

\* Vec::pop: removes the last element if there is one
VecPop(v) == IF Len(v) = 0 THEN v ELSE SubSeq(v, 1, Len(v) - 1)
\* Vec::push
VecPush(v, b) == Append(v, b)

IsCont(b) == b >= 128 /\ b <= 191

\* The length of the well-formed UTF-8 sequence at the head of b, 0 if the
\* head of b is not one (core::str::from_utf8's validation, Unicode table 3-7)
Utf8Width(b) ==
  LET n == Len(b) IN
  IF b[1] < 128 THEN 1
  ELSE IF b[1] >= 194 /\ b[1] <= 223
    THEN IF n >= 2 /\ IsCont(b[2]) THEN 2 ELSE 0
  ELSE IF b[1] >= 224 /\ b[1] <= 239
    THEN IF /\ n >= 3
            /\ IsCont(b[3])
            /\ \/ b[1] = 224 /\ b[2] >= 160 /\ b[2] <= 191
               \/ b[1] \in (225..236) \cup {238, 239} /\ IsCont(b[2])
               \/ b[1] = 237 /\ b[2] >= 128 /\ b[2] <= 159
         THEN 3 ELSE 0
  ELSE IF b[1] >= 240 /\ b[1] <= 244
    THEN IF /\ n >= 4
            /\ IsCont(b[3])
            /\ IsCont(b[4])
            /\ \/ b[1] = 240 /\ b[2] >= 144 /\ b[2] <= 191
               \/ b[1] \in 241..243 /\ IsCont(b[2])
               \/ b[1] = 244 /\ b[2] >= 128 /\ b[2] <= 143
         THEN 4 ELSE 0
  ELSE 0

RECURSIVE run_utf8_validation(_)
run_utf8_validation(b) ==
  IF Len(b) = 0 THEN TRUE
  ELSE LET w == Utf8Width(b) IN
       IF w = 0 THEN FALSE
       ELSE run_utf8_validation(SubSeq(b, w + 1, Len(b)))

\* str::from_utf8
from_utf8(b) == IF run_utf8_validation(b) THEN Ok(b) ELSE Err("Utf8")

\* char::encode_utf8
encode_utf8(c) ==
  IF c < 128 THEN <<c>>
  ELSE IF c < 2048 THEN <<192 + (c \div 64), 128 + (c % 64)>>
  ELSE IF c < 65536
    THEN <<224 + (c \div 4096), 128 + ((c \div 64) % 64), 128 + (c % 64)>>
  ELSE <<240 + (c \div 262144), 128 + ((c \div 4096) % 64),
         128 + ((c \div 64) % 64), 128 + (c % 64)>>

\* Values of type str / String: the valid UTF-8 byte sequences
Texts == {b \in ByteSeqs : run_utf8_validation(b)}

\* ------------------------------------------------------------ src/ext.rs
is_nul_terminated(s) == last(s) = Some(0)

\* ---------------------------------------------------------- src/c_utf8.rs
from_str_unchecked(s) == s
from_bytes_unchecked(b) == b

from_str(s) ==
  IF is_nul_terminated(s) THEN Ok(from_str_unchecked(s)) ELSE Err("Nul")

\* from_bytes checking the terminator before the encoding
from_bytes_nul_first(bytes) ==
  IF ~is_nul_terminated(bytes) THEN Err("Nul")
  ELSE LET r == from_utf8(bytes) IN
       IF r.tag = "Err" THEN Err("Utf8") ELSE Ok(from_str_unchecked(r.val))

from_bytes(bytes) ==
  LET r == from_utf8(bytes) IN
  IF r.tag = "Err" THEN Err("Utf8") ELSE from_str(r.val)

\* CStr::to_bytes_with_nul: a CStr is modelled by its bytes with the nul
to_bytes_with_nul(c) == c

from_c_str(c) ==
  LET r == from_utf8(to_bytes_with_nul(c)) IN
  IF r.tag = "Err" THEN Err("Utf8") ELSE Ok(from_str_unchecked(r.val))

\* strlen taking the run to end at its last byte instead of its first nul
strlen_to_end(raw) == Len(raw) - 1

\* strlen: the number of bytes before the first nul of the run at raw
RECURSIVE strlen(_)
strlen(raw) == IF raw[1] = 0 THEN 0 ELSE 1 + strlen(Tail(raw))

\* CStr::from_ptr: the bytes at raw through the first nul
CStr_from_ptr(raw) == SubSeq(raw, 1, strlen(raw) + 1)

\* from_ptr, feature "std"
from_ptr(raw) == from_c_str(CStr_from_ptr(raw))

\* from_ptr, without feature "std"
from_ptr_no_std(raw) ==
  LET n == strlen(raw) + 1
      r == from_utf8(SubSeq(raw, 1, n))
  IN IF r.tag = "Err" THEN Err("Utf8") ELSE Ok(from_str_unchecked(r.val))

len(self) == wrapping_sub(Len(self), 1)

is_empty(self) == Len(self) = 1

\* as_str that leaves the nul in place
as_str_keep_nul(self) == SubSeq(self, 1, Len(self))

as_str(self) ==
  LET l == saturating_sub(Len(self), 1) IN SubSeq(self, 1, l)

as_str_with_nul(self) == self

as_bytes(self) == as_str(self)

as_bytes_with_nul(self) == as_str_with_nul(self)

\* ------------------------------------------------------------- src/lib.rs
\* the macro without the concat!
c_utf8_no_nul(s) == s

\* c_utf8!($s): _Ref { s: concat!($s, "\0") }.c
c_utf8(s) == s \o <<0>>

EMPTY == c_utf8(<<>>)

\* ------------------------------------------------------ src/c_utf8_buf.rs
new == <<0>>

\* from_string that appends the nul whatever s ends in
from_string_always_push(s) == VecPush(s, 0)

\* ::is_nul_terminated, the crate-root function from_string calls: its
\* body is not among the sources; from_string's documentation ("appending
\* a nul terminator if one doesn't already exist") says what it decides.
root_is_nul_terminated(s) == Len(s) >= 1 /\ s[Len(s)] = 0

from_string(s) ==
  IF ~root_is_nul_terminated(s) THEN VecPush(s, 0) ELSE s

from_string_unchecked(s) == s

\* A closure FnOnce(&mut String) -> T is modelled by what it does to the
\* String, the bytes it appends, and by how it exits: "return" (normally),
\* "err" (it returns an Err value) or "unwind" (it panics).
Closure(bytes) == [append |-> bytes, exit |-> "return"]
CallOnce(f, inner) == inner \o f.append

\* with_string without the final push of the nul
with_string_no_push(self, f) ==
  LET popped == VecPop(self)
  IN CallOnce(f, popped)

\* with_string without the initial pop of the nul
with_string_no_pop(self, f) ==
  LET val == CallOnce(f, self)
  IN VecPush(val, 0)

\* with_string(f): pop the nul, run f on the String, push the nul
\* When f unwinds, the statements after the call of f do not run.
with_string(self, f) ==
  LET popped == VecPop(self)
      val == CallOnce(f, popped)
  IN IF f.exit = "unwind" THEN val ELSE VecPush(val, 0)

push_str(self, s) == with_string(self, Closure(s))

push(self, c) == with_string(self, Closure(encode_utf8(c)))

write_str(self, s) == push_str(self, s)

write_char(self, c) == push(self, c)

\* fmt::Arguments: the text its pieces and arguments have written to the
\* String when formatting ends, and how formatting ends: every piece
\* written ("return"), some Display impl returning fmt::Error ("err") or
\* panicking ("unwind").
FmtExits == {"return", "err", "unwind"}
Arguments(written, exit) == [written |-> written, exit |-> exit]

\* the closure |s| s.write_fmt(args) of write_fmt
FmtClosure(args) == [append |-> args.written, exit |-> args.exit]

write_fmt(self, args) == with_string(self, FmtClosure(args))

\* the fmt::Result write_fmt hands back, when it returns at all
write_fmt_result(args) ==
  CASE args.exit = "return" -> Ok(<<>>)
    [] args.exit = "err" -> Err("Fmt")
    [] args.exit = "unwind" -> Err("Unwind")

\* into_string that leaves the nul in place
into_string_no_pop(self) == self

into_string(self) == VecPop(self)

into_bytes(self) == VecPop(self)

\* Deref for CUtf8Buf
deref(self) == from_str_unchecked(self)

\* ToOwned for CUtf8
to_owned(self) == as_str_with_nul(self)

\* ------------------------------------------------------------ environment
\* Inputs handed to the operations
\* A readable nul-terminated run of memory at a raw pointer: bytes up to
\* and including a final nul (earlier nuls may occur, the scan stops there).
RawRuns == {b \o <<0>> : b \in ByteSeqs}
\* A CStr: bytes with exactly one nul, the last one (CStr's own invariant)
CStrs == {b \o <<0>> : b \in {x \in ByteSeqs : \A i \in 1..Len(x) : x[i] # 0}}

OkNum(n) == [tag |-> "Ok", val |-> <<>>, err |-> "none", num |-> n]
OkVal(v) == [tag |-> "Ok", val |-> v, err |-> "none", num |-> 0]
ErrOf(e) == [tag |-> "Err", val |-> <<>>, err |-> e, num |-> 0]
\* A Result<&CUtf8, _> as recorded in out
Outcome(r) == IF r.tag = "Ok" THEN OkVal(r.val) ELSE ErrOf(r.err)

Op(o, a, p) == [op |-> o, arg |-> a, pre |-> p]

VARIABLES
  buf,      \* the bytes of the live CUtf8Buf's String (self.0)
  bufSrc,   \* how the CUtf8Buf came to be: "none" when there is none
  view,     \* the bytes of the live &CUtf8 (self.0)
  viewSrc,  \* how the &CUtf8 came to be: "none" when there is none
  call,     \* the last call: its name, its argument, the buffer before it
  out       \* what the last call returned

vars == <<buf, bufSrc, view, viewSrc, call, out>>

LiveBuf == bufSrc \notin {"none", "consumed"}
LiveView == viewSrc # "none"
\* a view obtained by deref borrows the buffer: no &mut self call meanwhile
Borrowed == viewSrc \in {"deref", "deref_unchecked"}
Idle == bufSrc = "none" /\ ~LiveView
\* the buffer can be appended to: no view is in scope (one from deref
\* borrows the buffer, any other is let go of first), and a buffer found
\* after an unwinding is looked at, consumed or dropped, not appended to
Appendable == LiveBuf /\ ~LiveView /\ bufSrc # "unwound"

Init ==
  /\ buf = <<>>
  /\ bufSrc = "none"
  /\ view = <<>>
  /\ viewSrc = "none"
  /\ call = Op("init", <<>>, <<>>)
  /\ out = OkVal(<<>>)

\* ---- constructors of a view
SetView(r, src) ==
  /\ out' = Outcome(r)
  /\ IF r.tag = "Ok"
       THEN view' = r.val /\ viewSrc' = src
       ELSE UNCHANGED <<view, viewSrc>>
  /\ UNCHANGED <<buf, bufSrc>>

FromBytes ==
  \E b \in ByteSeqs :
    /\ Idle
    /\ SetView(from_bytes(b), "from_bytes")
    /\ call' = Op("from_bytes", b, buf)

FromStr ==
  \E s \in Texts :
    /\ Idle
    /\ SetView(from_str(s), "from_str")
    /\ call' = Op("from_str", s, buf)

FromCStr ==
  \E c \in CStrs :
    /\ Idle
    /\ SetView(from_c_str(c), "from_c_str")
    /\ call' = Op("from_c_str", c, buf)

FromPtr ==
  \E raw \in RawRuns :
    /\ Idle
    /\ SetView(from_ptr(raw), "from_ptr")
    /\ call' = Op("from_ptr", raw, buf)

FromPtrNoStd ==
  \E raw \in RawRuns :
    /\ Idle
    /\ SetView(from_ptr_no_std(raw), "from_ptr")
    /\ call' = Op("from_ptr_no_std", raw, buf)

FromBytesUnchecked ==
  \E b \in ByteSeqs :
    /\ Idle
    /\ SetView(Ok(from_bytes_unchecked(b)), "unchecked")
    /\ call' = Op("from_bytes_unchecked", b, buf)

FromStrUnchecked ==
  \E s \in Texts :
    /\ Idle
    /\ SetView(Ok(from_str_unchecked(s)), "unchecked")
    /\ call' = Op("from_str_unchecked", s, buf)

Macro ==
  \E s \in Texts :
    /\ Idle
    /\ SetView(Ok(c_utf8(s)), "c_utf8")
    /\ call' = Op("c_utf8", s, buf)

Deref ==
  /\ LiveBuf
  /\ ~LiveView
  /\ SetView(Ok(deref(buf)),
             IF bufSrc = "unchecked" THEN "deref_unchecked" ELSE "deref")
  /\ call' = Op("deref", <<>>, buf)

\* ---- accessors of a view
Len_ ==
  /\ LiveView
  /\ out' = OkNum(len(view))
  /\ call' = Op("len", <<>>, buf)
  /\ UNCHANGED <<buf, bufSrc, view, viewSrc>>

IsEmpty ==
  /\ LiveView
  /\ out' = OkNum(IF is_empty(view) THEN 1 ELSE 0)
  /\ call' = Op("is_empty", <<>>, buf)
  /\ UNCHANGED <<buf, bufSrc, view, viewSrc>>

AsStr ==
  /\ LiveView
  /\ out' = OkVal(as_str(view))
  /\ call' = Op("as_str", <<>>, buf)
  /\ UNCHANGED <<buf, bufSrc, view, viewSrc>>

DropView ==
  /\ LiveView
  /\ view' = <<>>
  /\ viewSrc' = "none"
  /\ out' = OkVal(<<>>)
  /\ call' = Op("drop_view", <<>>, <<>>)
  /\ UNCHANGED <<buf, bufSrc>>

\* ---- constructors of a buffer
SetBuf(b, src) ==
  /\ buf' = b
  /\ bufSrc' = src
  /\ out' = OkVal(b)
  /\ UNCHANGED <<view, viewSrc>>

New ==
  /\ Idle
  /\ SetBuf(new, "new")
  /\ call' = Op("new", <<>>, buf)

FromString ==
  \E s \in Texts :
    /\ Idle
    /\ SetBuf(from_string(s), "from_string")
    /\ call' = Op("from_string", s, buf)

FromStringUnchecked ==
  \E s \in Texts :
    /\ Idle
    /\ SetBuf(from_string_unchecked(s), "unchecked")
    /\ call' = Op("from_string_unchecked", s, buf)

ToOwned ==
  /\ LiveView
  /\ bufSrc = "none"
  /\ SetBuf(to_owned(view),
            IF viewSrc = "unchecked" THEN "unchecked" ELSE "to_owned")
  /\ call' = Op("to_owned", view, buf)

\* ---- mutation of a buffer
Mutate(b) ==
  /\ buf' = b
  /\ out' = OkVal(<<>>)
  /\ UNCHANGED <<bufSrc, view, viewSrc>>

PushStr ==
  \E s \in Texts :
    /\ Appendable
    /\ Len(buf) + Len(s) <= MaxBuf
    /\ Mutate(push_str(buf, s))
    /\ call' = Op("push_str", s, buf)

Push ==
  \E c \in Chars :
    /\ Appendable
    /\ Len(buf) + Len(encode_utf8(c)) <= MaxBuf
    /\ Mutate(push(buf, c))
    /\ call' = Op("push", <<c>>, buf)

WriteStr ==
  \E s \in Texts :
    /\ Appendable
    /\ Len(buf) + Len(s) <= MaxBuf
    /\ Mutate(write_str(buf, s))
    /\ call' = Op("write_str", s, buf)

WriteChar ==
  \E c \in Chars :
    /\ Appendable
    /\ Len(buf) + Len(encode_utf8(c)) <= MaxBuf
    /\ Mutate(write_char(buf, c))
    /\ call' = Op("write_char", <<c>>, buf)

\* write_fmt; when formatting panics the buffer is what the caller finds
\* after the unwinding (catch_unwind, a Drop impl, a poisoned lock)
WriteFmt ==
  \E w \in Texts, e \in FmtExits :
    /\ Appendable
    /\ Len(buf) + Len(w) <= MaxBuf
    /\ buf' = write_fmt(buf, Arguments(w, e))
    /\ bufSrc' = IF e = "unwind" THEN "unwound" ELSE bufSrc
    /\ out' = Outcome(write_fmt_result(Arguments(w, e)))
    /\ call' = Op("write_fmt", w, buf)
    /\ UNCHANGED <<view, viewSrc>>

\* ---- consumption of a buffer
Consume(o) ==
  /\ buf' = <<>>
  /\ bufSrc' = "consumed"
  /\ out' = OkVal(o)
  /\ UNCHANGED <<view, viewSrc>>

IntoString ==
  /\ LiveBuf /\ ~Borrowed
  /\ Consume(into_string(buf))
  /\ call' = Op("into_string", <<>>, buf)

IntoBytes ==
  /\ LiveBuf /\ ~Borrowed
  /\ Consume(into_bytes(buf))
  /\ call' = Op("into_bytes", <<>>, buf)

\* the buffer, or what it was consumed into, goes out of scope
DropBuf ==
  /\ bufSrc # "none" /\ ~Borrowed
  /\ buf' = <<>>
  /\ bufSrc' = "none"
  /\ out' = OkVal(<<>>)
  /\ call' = Op("drop", <<>>, <<>>)
  /\ UNCHANGED <<view, viewSrc>>

Next ==
  \/ FromBytes \/ FromStr \/ FromCStr \/ FromPtr \/ FromPtrNoStd
  \/ FromBytesUnchecked \/ FromStrUnchecked \/ Macro \/ Deref
  \/ Len_ \/ IsEmpty \/ AsStr \/ DropView
  \/ New \/ FromString \/ FromStringUnchecked \/ ToOwned
  \/ PushStr \/ Push \/ WriteStr \/ WriteChar \/ WriteFmt
  \/ IntoString \/ IntoBytes \/ DropBuf

Spec == Init /\ [][Next]_vars

\* ----------------------------------------------------------------- claims
\* What the claims speak of, stated on the stored bytes themselves
EndsInNul(b) == Len(b) >= 1 /\ b[Len(b)] = 0
NoInteriorNul(b) == \A i \in 1..(Len(b) - 1) : b[i] # 0
HasNul(b) == \E i \in 1..Len(b) : b[i] = 0
\* the content of stored bytes c ++ [0]
Content(b) == SubSeq(b, 1, Len(b) - 1)
\* the UTF-8 encodings of the chars of Chars
Utf8Of(c) ==
  CASE c = 0 -> <<0>>
    [] c = 97 -> <<97>>
    [] c = 233 -> <<195, 169>>

Appends == {"push_str", "push", "write_str", "write_char"}

\* C1: a buffer made by new() or from_string(s), after any pushes and
\* writes, has stored length >= 1 and last stored byte 0 in every state
\* between calls, and so has every view it derefs to.
C1_BufNulTerminated ==
  bufSrc \in {"new", "from_string"} =>
    /\ Len(buf) >= 1
    /\ buf[Len(buf)] = 0
    /\ viewSrc = "deref" => (Len(view) >= 1 /\ view[Len(view)] = 0)

\* a deref of a from_string buffer longer than any from_string makes:
\* appends have acted on it
C1_Witness ==
  /\ bufSrc = "from_string"
  /\ call.op = "deref"
  /\ viewSrc = "deref"
  /\ Len(view) > MaxLen + 1

C4_NoInteriorNul ==
  /\ viewSrc \in {"from_bytes", "from_str"} =>
       (EndsInNul(view) /\ NoInteriorNul(view))
  /\ bufSrc = "from_string" => (EndsInNul(buf) /\ NoInteriorNul(buf))
  /\ ( /\ call.op \in {"from_bytes", "from_str"}
       /\ run_utf8_validation(call.arg)
       /\ ~(EndsInNul(call.arg) /\ NoInteriorNul(call.arg)) )
     => out = ErrOf("Nul")

\* C5: for valid UTF-8 t without a nul byte, from_str(t ++ "\0") succeeds
\* and the view has as_str() = t, as_bytes() = bytes(t), as_bytes_with_nul()
\* = bytes(t) ++ [0], as_str_with_nul() = t ++ "\0".
C5_FromStrAccessors ==
  /\ call.op = "from_str" =>
       \A t \in Texts : (~HasNul(t) /\ call.arg = t \o <<0>>) =>
         /\ out = OkVal(t \o <<0>>)
         /\ viewSrc = "from_str"
         /\ as_str(view) = t
         /\ as_bytes(view) = t
         /\ as_bytes_with_nul(view) = t \o <<0>>
         /\ as_str_with_nul(view) = t \o <<0>>
  /\ (call.op = "as_str" /\ viewSrc = "from_str") => out.val \o <<0>> = view

C5_Witness ==
  /\ call.op = "as_str"
  /\ viewSrc = "from_str"
  /\ view = <<195, 169, 0>>
  /\ out.val = <<195, 169>>

\* C6: c_utf8!(s) yields a view storing bytes(s) ++ [0], which ends in 0
\* and has as_str() = s ("Heyo!" gives [72,101,121,111,33,0]); for ""
\* (CUtf8::EMPTY) the stored bytes are [0], len() = 0, is_empty() holds.
C6_MacroAppendsNul ==
  /\ call.op = "c_utf8" =>
       /\ viewSrc = "c_utf8"
       /\ as_bytes_with_nul(view) = call.arg \o <<0>>
       /\ EndsInNul(as_bytes_with_nul(view))
       /\ as_str(view) = call.arg
       /\ call.arg = <<>> =>
            (view = EMPTY /\ view = <<0>> /\ len(view) = 0 /\ is_empty(view))
  /\ as_bytes_with_nul(c_utf8(<<72, 101, 121, 111, 33>>))
       = <<72, 101, 121, 111, 33, 0>>
  /\ as_str(c_utf8(<<72, 101, 121, 111, 33>>)) = <<72, 101, 121, 111, 33>>
  /\ as_bytes_with_nul(EMPTY) = <<0>>
  /\ len(EMPTY) = 0
  /\ is_empty(EMPTY)

C6_Witness ==
  /\ call.op = "c_utf8"
  /\ call.arg = <<97, 195, 169>>
  /\ view = <<97, 195, 169, 0>>

\* C7: from_string(s) appends a nul iff s does not already end in 0: the
\* stored bytes are bytes(s) when the last byte of s is 0 and bytes(s) ++
\* [0] otherwise; s empty gives [0], as new() does.
C7_FromStringAppendsIff ==
  call.op = "from_string" =>
    LET s == call.arg IN
    /\ bufSrc = "from_string"
    /\ (Len(s) >= 1 /\ s[Len(s)] = 0) => buf = s
    /\ ~(Len(s) >= 1 /\ s[Len(s)] = 0) => buf = s \o <<0>>
    /\ s = <<>> => (buf = <<0>> /\ buf = new)

C7_Witness ==
  /\ call.op = "from_string"
  /\ call.arg = <<97, 0>>
  /\ buf = <<97, 0>>

\* C8: for a valid view v, v.to_owned().into_string() = v.as_str() and
\* v.to_owned().into_bytes() = v.as_bytes(); consuming a buffer removes
\* the one trailing nul and nothing else, after appends as well.
C8_RoundTrip ==
  /\ (LiveView /\ EndsInNul(view) /\ run_utf8_validation(view)) =>
       /\ into_string(to_owned(view)) = as_str(view)
       /\ into_bytes(to_owned(view)) = as_bytes(view)
  /\ ( /\ call.op \in {"into_string", "into_bytes"}
       /\ LiveView
       /\ EndsInNul(view)
       /\ call.pre = view )
     => (out.val = as_str(view) /\ out.val = as_bytes(view))
  /\ (call.op \in {"into_string", "into_bytes"} /\ EndsInNul(call.pre)) =>
       (out.val \o <<0>> = call.pre /\ bufSrc = "consumed")

C8_Witness ==
  /\ call.op = "into_string"
  /\ viewSrc = "from_bytes"
  /\ view = <<195, 169, 0>>
  /\ call.pre = view
  /\ out.val = <<195, 169>>

\* C9: len() is the stored length minus one, saturating: 0 for a view
\* holding only the nul and 0 for an unchecked-constructed view of stored
\* length 0, so len() = as_str().len() for every view.
C9_LenSaturates ==
  /\ LiveView =>
       /\ len(view) = Len(as_str(view))
       /\ Len(view) <= 1 => len(view) = 0
  /\ call.op = "len" => out.num = Len(as_str(view))

\* the first nul of a run that has one
FirstNul(raw) ==
  CHOOSE k \in 1..Len(raw) : raw[k] = 0 /\ \A j \in 1..(k - 1) : raw[j] # 0

\* C10: from_ptr over a readable nul-terminated run: when the bytes before
\* the first nul are valid UTF-8 text t, the result is a view storing
\* bytes(t) ++ [0] with as_str() = t (no interior nul); it is the encoding
\* error exactly when they are not valid UTF-8.  from_c_str does the same
\* on the bytes of the C string.
C10_FromPtr ==
  /\ call.op \in {"from_ptr", "from_ptr_no_std"} =>
       LET k == FirstNul(call.arg)
           t == SubSeq(call.arg, 1, k - 1)
       IN IF run_utf8_validation(t)
            THEN /\ out = OkVal(t \o <<0>>)
                 /\ viewSrc = "from_ptr"
                 /\ view = t \o <<0>>
                 /\ as_str(view) = t
                 /\ NoInteriorNul(view)
            ELSE out = ErrOf("Utf8")
  /\ call.op = "from_c_str" =>
       LET t == SubSeq(call.arg, 1, Len(call.arg) - 1)
       IN IF run_utf8_validation(t)
            THEN /\ out = OkVal(t \o <<0>>)
                 /\ viewSrc = "from_c_str"
                 /\ view = t \o <<0>>
                 /\ as_str(view) = t
                 /\ NoInteriorNul(view)
            ELSE out = ErrOf("Utf8")

\* a run whose bytes after the first nul are not valid UTF-8
C10_Witness ==
  /\ call.op = "from_ptr"
  /\ call.arg = <<97, 0, 195, 0>>
  /\ view = <<97, 0>>
  /\ out.tag = "Ok"

\* C11: with_string restores the terminator on every exit path of the
\* mutation: whether the closure of write_fmt returns normally, returns
\* the formatting error or unwinds, a buffer that ended in 0 before the
\* call still ends in 0 after it.
C11_TerminatorRestored ==
  (call.op = "write_fmt" /\ EndsInNul(call.pre)) => EndsInNul(buf)

====
